---- MODULE Spec2Model ----
(***************************************************************************)
(* MedSynQ (src/server.py): a single-threaded HTTP server                   *)
(* (socketserver.TCPServer, one request handled at a time) over a SQLite    *)
(* store with three tables and an in-memory, insertion-ordered session      *)
(* dictionary SESSIONS.  One action per (method, path) route; each action   *)
(* is the whole handler.                                                    *)
(*                                                                          *)
(* Text values are sequences of one-character strings so that str.strip()   *)
(* and Python truthiness ('' is falsy) are computed, not assumed.           *)
(* Optional values (None) are sequences of length 0 or 1; SQL values are    *)
(* records with a null flag.                                                *)
(***************************************************************************)
EXTENDS Integers, Sequences, FiniteSets, TLC

\* ---------------------------------------------------------------- bounds
MaxTokens == 3      \* uuid4 values the model can draw
MaxPatients == 2    \* rows the patients table may hold
MaxConnections == 2 \* client connections with a request in flight

Tokens == 1..MaxTokens
Connections == 1..MaxConnections

\* ---------------------------------------------------------------- inputs
\* Raw form-field values (after parse_qs): the empty string, whitespace-only
\* strings, strings with surrounding whitespace and plain strings.
TenantNameInputs == {<<>>, <<" ">>, <<"a">>, <<"a", " ">>, <<"b">>}
AdminNameInputs == {<<>>, <<" ", "n">>}
AdminEmailInputs == {<<>>, <<"e", " ">>}
AdminPasswordInputs == {<<>>, <<" ", "p">>}
LoginTenantInputs == {<<>>, <<" ", "a">>, <<"b">>}
LoginEmailInputs == {<<>>, <<" ", "e">>, <<"f">>}
LoginPasswordInputs == {<<>>, <<"p">>, <<" ", "p">>}
PatientNameInputs == {<<"j", " ">>}
BlankNameInputs == {<<>>, <<" ">>}
\* (date_of_birth, notes) as submitted: each is empty in one pair
DobNotesInputs == {<< <<>>, <<"x">> >>, << <<"d">>, <<>> >>}
\* a crafted extra form field tenant_id (0: the field is not sent)
CraftedTenantIds == {0, 1}

\* What follows "/public/" in the path of a static request, split at "/":
\* a file of the public directory, a missing one, and paths with "." and
\* ".." segments.
StaticTails ==
    {<<"style.css">>, <<"missing.css">>, <<".", "style.css">>,
     <<"..", "public", "style.css">>, <<"..", "server.py">>,
     <<"..", "database.sqlite">>, <<"style.css", "..", "..", "server.py">>}

\* request methods the handler class has no do_<METHOD> for
OtherMethods == {"PUT", "DELETE"}

\* The Cookie header: absent, present without a usable session_id morsel,
\* or carrying session_id = t.
NoCookie == [kind |-> "none", session_id |-> 0]
OtherCookie == [kind |-> "other", session_id |-> 0]
SessionCookie(t) == [kind |-> "session", session_id |-> t]
Cookies == {NoCookie, OtherCookie} \cup {SessionCookie(t) : t \in Tokens}

\* ---------------------------------------------------------------- state
VARIABLES
    tenants,    \* table tenants: sequence of rows [id, name]
    users,      \* table users: rows [id, tenant_id, name, email, password]
    patients,   \* table patients: rows [id, tenant_id, name, date_of_birth, notes]
    SESSIONS,   \* the dict SESSIONS in insertion order: entries [sid, data]
    issued,     \* the uuid4 values generated so far (uuid4 does not repeat)
    created,    \* history: the successful POST /patients/new submissions
    connections \* per client connection: its request and how far the server is with it

vars == <<tenants, users, patients, SESSIONS, issued, created, connections>>

\* The program state a handler reads and writes.
State ==
    [tenants |-> tenants, users |-> users, patients |-> patients,
     SESSIONS |-> SESSIONS, issued |-> issued]

\* ---------------------------------------------------------------- text
Whitespace == {" "}

RECURSIVE lstrip(_)
lstrip(s) ==
    IF s = <<>> THEN s
    ELSE IF Head(s) \in Whitespace THEN lstrip(Tail(s)) ELSE s

RECURSIVE rstrip(_)
rstrip(s) ==
    IF s = <<>> THEN s
    ELSE IF s[Len(s)] \in Whitespace THEN rstrip(SubSeq(s, 1, Len(s) - 1)) ELSE s

\* (mutant) the value taken as sent
strip_Identity(s) == s

\* str.strip()
strip(s) == rstrip(lstrip(s))

\* data.get(key, [''])[0]: parse_qs drops blank values, so a missing key and
\* an empty value both read as ''.
Field(form, key) == IF key \in DOMAIN form THEN form[key] ELSE <<>>

\* ---------------------------------------------------------------- SQL values
Null == [null |-> TRUE, text |-> <<>>]
Text(s) == [null |-> FALSE, text |-> s]

\* `v if v else None` as bound to a nullable TEXT column
NullIfEmpty(s) == IF s = <<>> THEN Null ELSE Text(s)

\* `row[i] or ''`
OrEmpty(v) == IF v.null \/ v.text = <<>> THEN <<>> ELSE v.text

\* SELECT ... WHERE: the rows of table T, from row i on and in rowid order,
\* that the condition hit (a Boolean per row index) keeps
RECURSIVE SelectFrom(_, _, _)
SelectFrom(T, hit, i) ==
    IF i > Len(T) THEN <<>>
    ELSE IF hit[i] THEN <<T[i]>> \o SelectFrom(T, hit, i + 1)
    ELSE SelectFrom(T, hit, i + 1)

\* ---------------------------------------------------------------- responses
NoHeader == ""
None == <<>>
Some(x) == <<x>>

Response(status, location, setCookie, view, user, error, listing, rows) ==
    [status |-> status, location |-> location, set_cookie |-> setCookie,
     view |-> view, user |-> user, error |-> error,
     patients |-> listing, rows |-> rows]

\* respond(render_template(view, user=..., error=...))
respond(view, user, error) ==
    Response(200, NoHeader, None, view, user, error, <<>>, <<>>)

\* redirect(location)
redirect(location) ==
    Response(302, location, None, "", None, "", <<>>, <<>>)

\* send_error(404, ...)
send_error(code) ==
    Response(code, NoHeader, None, "", None, "", <<>>, <<>>)

\* ---------------------------------------------------------------- sessions
\* the entries of the dict S under key sid (none or one: keys are unique)
RECURSIVE DictGet(_, _)
DictGet(S, sid) ==
    IF S = <<>> THEN None
    ELSE IF Head(S).sid = sid THEN Some(Head(S).data)
    ELSE DictGet(Tail(S), sid)

\* S[sid] = data: an existing key keeps its place, a new key goes last
DictSet(S, sid, data) ==
    IF \E i \in 1..Len(S) : S[i].sid = sid
    THEN [i \in 1..Len(S) |->
            IF S[i].sid = sid THEN [sid |-> sid, data |-> data] ELSE S[i]]
    ELSE Append(S, [sid |-> sid, data |-> data])

\* (mutant) an id the registry does not hold falls back to the oldest session
get_session_Fallback(cookie, S) ==
    IF cookie.kind = "none" THEN None
    ELSE IF cookie.kind = "session" /\ DictGet(S, cookie.session_id) # None
    THEN DictGet(S, cookie.session_id)
    ELSE IF S = <<>> THEN None ELSE Some(S[1].data)

\* get_session(): the snapshot stored for the request's session_id cookie,
\* or None (no Cookie header, no session_id morsel, unknown id)
get_session(cookie, S) ==
    IF cookie.kind = "none" THEN None
    ELSE IF cookie.kind = "session" THEN DictGet(S, cookie.session_id)
    ELSE None

\* (mutant) the two names stored under each other's key
SessionData_NamesSwapped(user_id, user_name, tenant_id, tenant_name) ==
    [id |-> user_id, user_name |-> tenant_name,
     tenant_id |-> tenant_id, tenant_name |-> user_name]

\* the dictionary stored by set_session
SessionData(user_id, user_name, tenant_id, tenant_name) ==
    [id |-> user_id, user_name |-> user_name,
     tenant_id |-> tenant_id, tenant_name |-> tenant_name]

\* a Set-Cookie header for the morsel session_id
Morsel(value, path, expires) ==
    [name |-> "session_id", value |-> value, path |-> path, expires |-> expires]

\* set_session(): the response begun with 302 and the cookie of the new id;
\* the caller adds Location and ends the headers
set_session_response(session_id, location) ==
    Response(302, location, Some(Morsel(Some(session_id), "/", "")),
             "", None, "", <<>>, <<>>)

\* clear_session(): 302 and an expired, empty session_id cookie
clear_session_response(location) ==
    Response(302, location,
             Some(Morsel(None, "/", "Thu, 01 Jan 1970 00:00:00 GMT")),
             "", None, "", <<>>, <<>>)

\* (mutant) the loop without its test of the stored user id
DeleteFirstOfUser_AnyUser(S, user_id) == IF S = <<>> THEN S ELSE Tail(S)

\* handle_logout's loop: delete the first entry, in dictionary order, whose
\* stored user id is user_id, then break
RECURSIVE DeleteFirstOfUser(_, _)
DeleteFirstOfUser(S, user_id) ==
    IF S = <<>> THEN S
    ELSE IF Head(S).data.id = user_id THEN Tail(S)
    ELSE <<Head(S)>> \o DeleteFirstOfUser(Tail(S), user_id)

\* ---------------------------------------------------------------- store
\* INTEGER PRIMARY KEY AUTOINCREMENT on a table rows are never deleted from
lastrowid(T) == IF T = <<>> THEN 1 ELSE T[Len(T)].id + 1

\* (mutant) tenants.name without its UNIQUE constraint
NameTaken_NoConstraint(T, name) == FALSE

\* tenants.name is UNIQUE: inserting a name the table holds raises
\* sqlite3.IntegrityError
NameTaken(T, name) == \E i \in 1..Len(T) : T[i].name = name

\* (mutant) the SELECT without its WHERE clause
TenantByName_First(T, name) == IF T = <<>> THEN None ELSE Some(T[1])

\* SELECT id FROM tenants WHERE name = ? ; fetchone()
TenantByName(T, name) ==
    LET hit == [i \in 1..Len(T) |-> T[i].name = name]
        rows == SelectFrom(T, hit, 1)
    IN IF rows = <<>> THEN None ELSE Some(rows[1])

\* (mutant) the user looked up by email alone
UserByTenantEmail_AnyTenant(U, tenant_id, email) ==
    LET hit == [i \in 1..Len(U) |-> U[i].email = email]
        rows == SelectFrom(U, hit, 1)
    IN IF rows = <<>> THEN None ELSE Some(rows[1])

\* SELECT id, name, password FROM users WHERE tenant_id = ? AND email = ? ; fetchone()
UserByTenantEmail(U, tenant_id, email) ==
    LET hit == [i \in 1..Len(U) |->
                    U[i].tenant_id = tenant_id /\ U[i].email = email]
        rows == SelectFrom(U, hit, 1)
    IN IF rows = <<>> THEN None ELSE Some(rows[1])

\* `not user_row or user_row[2] != password`
CredentialsRejected(user_row, password) ==
    user_row = None \/ user_row[1].password # password

\* (mutant) the error text tells an unknown email from a wrong password
LoginError_ByCase(user_row) ==
    IF user_row = None THEN "Unknown user." ELSE "Invalid credentials."

\* the error text of a rejected login, whichever of the two checks failed
LoginError(user_row) == "Invalid credentials."

\* (mutant) the tenant id taken from a submitted form field when one is sent
PatientRow_FormTenant(id, session, data) ==
    [id |-> id,
     tenant_id |-> IF data.tenant_id # 0 THEN data.tenant_id
                   ELSE session.tenant_id,
     name |-> strip(Field(data, "name")),
     date_of_birth |-> NullIfEmpty(Field(data, "date_of_birth")),
     notes |-> NullIfEmpty(Field(data, "notes"))]

\* the row INSERTed by handle_new_patient
PatientRow(id, session, data) ==
    [id |-> id,
     tenant_id |-> session.tenant_id,
     name |-> strip(Field(data, "name")),
     date_of_birth |-> NullIfEmpty(Field(data, "date_of_birth")),
     notes |-> NullIfEmpty(Field(data, "notes"))]

\* (mutant) the SELECT without its WHERE clause
PatientsOfTenant_NoFilter(P, tenant_id) ==
    LET hit == [i \in 1..Len(P) |-> TRUE]
    IN  SelectFrom(P, hit, 1)

\* SELECT name, date_of_birth, notes FROM patients WHERE tenant_id = ?
PatientsOfTenant(P, tenant_id) ==
    LET hit == [i \in 1..Len(P) |-> P[i].tenant_id = tenant_id]
    IN  SelectFrom(P, hit, 1)

\* (mutant) a NULL column handed to the template as None
PatientView_KeepNull(row) ==
    [name |-> row.name,
     date_of_birth |-> IF row.date_of_birth.null THEN <<"N", "o", "n", "e">>
                       ELSE row.date_of_birth.text,
     notes |-> IF row.notes.null THEN <<"N", "o", "n", "e">> ELSE row.notes.text]

\* the dictionary render_dashboard builds from a fetched row
PatientView(row) ==
    [name |-> row.name,
     date_of_birth |-> OrEmpty(row.date_of_birth),
     notes |-> OrEmpty(row.notes)]

\* ---------------------------------------------------------------- requests
Request(method, path, cookie, form) ==
    [method |-> method, path |-> path, cookie |-> cookie, form |-> form]

NoForm == <<>>

\* What handling a request yields: the response written and the state left.
Outcome(response, st) == [resp |-> response, st |-> st]

\* A request whose path begins with "/public/": path holds that prefix, the
\* one do_GET tests with startswith, and segments the rest.
StaticRequest(cookie, segments) ==
    [method |-> "GET", path |-> "/public/", cookie |-> cookie, form |-> NoForm,
     segments |-> segments]

\* ---------------------------------------------------------------- files
\* The directory of server.py, os.path.dirname(__file__), as a path from its
\* parent directory.
AppDir == <<"app">>

\* The directories and regular files there: the script, the database
\* init_db creates, the two directories __main__ makes, a template and one
\* public asset.
Directories ==
    {<<>>, AppDir, AppDir \o <<"public">>, AppDir \o <<"templates">>}

Files ==
    {AppDir \o <<"server.py">>, AppDir \o <<"database.sqlite">>,
     AppDir \o <<"public", "style.css">>,
     AppDir \o <<"templates", "index.html">>}

\* Path resolution by the operating system: from directory cur, follow the
\* segments; "" and "." stay, ".." goes to the parent, a name goes down.
\* None when a segment is followed from something that is not a directory.
RECURSIVE walk(_, _)
walk(cur, segments) ==
    IF segments = <<>> THEN Some(cur)
    ELSE IF cur \notin Directories THEN None
    ELSE LET s == Head(segments)
             next == IF s \in {"", "."} THEN cur
                     ELSE IF s = ".."
                     THEN (IF cur = <<>> THEN cur
                           ELSE SubSeq(cur, 1, Len(cur) - 1))
                     ELSE Append(cur, s)
         IN  walk(next, Tail(segments))

\* os.path.join(os.path.dirname(__file__), path.lstrip('/')) for the path
\* "/public/" + segments, as the operating system resolves it
file_path(segments) == walk(AppDir, <<"public">> \o segments)

\* os.path.isfile
isfile(resolved) == resolved # None /\ resolved[1] \in Files

\* the 200 response that carries the content of a file
send_file(file) ==
    [status |-> 200, location |-> NoHeader, set_cookie |-> None, view |-> "",
     user |-> None, error |-> "", patients |-> <<>>, rows |-> <<>>,
     file |-> file]

\* serve_static
serve_static(st, r) ==
    LET resolved == file_path(r.segments)
    IN  IF ~isfile(resolved)
        THEN {Outcome(send_error(404), st)}
        ELSE {Outcome(send_file(resolved[1]), st)}

\* ---------------------------------------------------------------- handlers
\* Each handler maps the state st and the request r to the set of its
\* possible outcomes: one outcome, or one per uuid4 value it may draw.

\* uuid.uuid4(): a value never drawn before.  Handlers only compare session
\* ids for equality, so the values are drawn in one fixed order; none is left
\* once the model's MaxTokens are used.
uuid4(st) ==
    LET free == Tokens \ st.issued
    IN  IF free = {} THEN {}
        ELSE {CHOOSE t \in free : \A u \in free : t <= u}

\* set_session(), with the Location header and end_headers() of its callers
set_session(st, user_id, user_name, tenant_id, tenant_name) ==
    { Outcome(set_session_response(session_id, "/dashboard"),
              [st EXCEPT !.SESSIONS = DictSet(st.SESSIONS, session_id,
                            SessionData(user_id, user_name, tenant_id, tenant_name)),
                         !.issued = st.issued \cup {session_id}])
        : session_id \in uuid4(st) }

\* handle_register_tenant
handle_register_tenant(st, r) ==
    LET data == r.form
        tenant_name == strip(Field(data, "tenantName"))
        admin_name == strip(Field(data, "adminName"))
        admin_email == strip(Field(data, "adminEmail"))
        admin_password == Field(data, "adminPassword")
    IN  IF tenant_name = <<>> \/ admin_name = <<>> \/ admin_email = <<>>
           \/ admin_password = <<>>
        THEN {Outcome(respond("register_tenant.html", None,
                              "All fields are required."), st)}
        ELSE IF NameTaken(st.tenants, tenant_name)
        THEN \* sqlite3.IntegrityError (tenants.name UNIQUE): closed, uncommitted
             {Outcome(respond("register_tenant.html", None,
                              "Organisation name already exists."), st)}
        ELSE LET tenant_id == lastrowid(st.tenants)
                 user_id == lastrowid(st.users)
                 committed ==
                    [st EXCEPT
                        !.tenants = Append(st.tenants,
                            [id |-> tenant_id, name |-> tenant_name]),
                        !.users = Append(st.users,
                            [id |-> user_id, tenant_id |-> tenant_id,
                             name |-> admin_name, email |-> admin_email,
                             password |-> admin_password])]
             IN  set_session(committed, user_id, admin_name, tenant_id, tenant_name)

\* handle_login
handle_login(st, r) ==
    LET data == r.form
        tenant_name == strip(Field(data, "tenantName"))
        email == strip(Field(data, "email"))
        password == Field(data, "password")
        tenant_row == TenantByName(st.tenants, tenant_name)
    IN  IF tenant_name = <<>> \/ email = <<>> \/ password = <<>>
        THEN {Outcome(respond("login.html", None, "All fields are required."), st)}
        ELSE IF tenant_row = None
        THEN {Outcome(respond("login.html", None, "Organisation not found."), st)}
        ELSE LET tenant_id == tenant_row[1].id
                 user_row == UserByTenantEmail(st.users, tenant_id, email)
             IN  IF CredentialsRejected(user_row, password)
                 THEN {Outcome(respond("login.html", None,
                                       LoginError(user_row)), st)}
                 ELSE set_session(st, user_row[1].id, user_row[1].name,
                                  tenant_id, tenant_name)

\* handle_new_patient
handle_new_patient(st, r) ==
    LET session == get_session(r.cookie, st.SESSIONS)
        data == r.form
        name == strip(Field(data, "name"))
    IN  IF session = None
        THEN {Outcome(redirect("/login"), st)}
        ELSE IF name = <<>>
        THEN {Outcome(respond("new_patient.html", session, "Name is required."), st)}
        ELSE IF Len(st.patients) >= MaxPatients
        THEN {}     \* the model's bound on the table: not taken
        ELSE {Outcome(redirect("/dashboard"),
                      [st EXCEPT !.patients = Append(st.patients,
                            PatientRow(lastrowid(st.patients), session[1], data))])}

\* handle_logout
handle_logout(st, r) ==
    LET session == get_session(r.cookie, st.SESSIONS)
    IN  IF session # None
        THEN {Outcome(clear_session_response("/"),
                      [st EXCEPT !.SESSIONS =
                            DeleteFirstOfUser(st.SESSIONS, session[1].id)])}
        ELSE {Outcome(clear_session_response("/"), st)}

\* render_dashboard
render_dashboard(st, session) ==
    LET rows == PatientsOfTenant(st.patients, session.tenant_id)
    IN  Response(200, NoHeader, None, "dashboard.html", Some(session), "",
                 [i \in 1..Len(rows) |-> PatientView(rows[i])],
                 [i \in 1..Len(rows) |-> rows[i].id])

\* do_GET
do_GET(st, r) ==
    LET path == r.path
        session == get_session(r.cookie, st.SESSIONS)
    IN  IF path = "/public/"      \* path.startswith('/public/')
        THEN serve_static(st, r)
        ELSE IF path = "/"
        THEN {Outcome(respond("index.html", session, ""), st)}
        ELSE IF path = "/register-tenant"
        THEN {Outcome(respond("register_tenant.html", session, ""), st)}
        ELSE IF path = "/login"
        THEN {Outcome(respond("login.html", session, ""), st)}
        ELSE IF path = "/dashboard"
        THEN IF session = None THEN {Outcome(redirect("/login"), st)}
             ELSE {Outcome(render_dashboard(st, session[1]), st)}
        ELSE IF path = "/patients/new"
        THEN IF session = None THEN {Outcome(redirect("/login"), st)}
             ELSE {Outcome(respond("new_patient.html", session, ""), st)}
        ELSE IF path = "/logout"
        THEN handle_logout(st, r)
        ELSE {Outcome(send_error(404), st)}

\* do_POST
do_POST(st, r) ==
    LET path == r.path
    IN  IF path = "/register-tenant" THEN handle_register_tenant(st, r)
        ELSE IF path = "/login" THEN handle_login(st, r)
        ELSE IF path = "/patients/new" THEN handle_new_patient(st, r)
        ELSE {Outcome(send_error(404), st)}

\* ---------------------------------------------------------------- store failures
\* A store operation (sqlite3 connect, execute, commit) may raise an error
\* other than the IntegrityError handle_register_tenant expects.  No handler
\* and neither do_GET nor do_POST has an except clause for it: the exception
\* leaves the handler, socketserver's handle_error logs it and the
\* connection is shut down with nothing written to it.
no_response == Response(0, NoHeader, None, "", None, "", <<>>, <<>>)

\* (mutant) every statement committed as it is executed
close_uncommitted_Autocommit(committed, working) == working

\* The connection is dropped without conn.commit(): what its transaction
\* wrote (working) is rolled back and the store stays as committed.
close_uncommitted(committed, working) == committed

\* handle_register_tenant when a store operation raises: the INSERT INTO
\* tenants, or, once that succeeded, the INSERT INTO users or the commit
register_tenant_failure(st, r) ==
    LET data == r.form
        tenant_name == strip(Field(data, "tenantName"))
        admin_name == strip(Field(data, "adminName"))
        admin_email == strip(Field(data, "adminEmail"))
        admin_password == Field(data, "adminPassword")
        tenant_id == lastrowid(st.tenants)
        withTenant ==
            [st EXCEPT !.tenants = Append(st.tenants,
                            [id |-> tenant_id, name |-> tenant_name])]
        withUser ==
            [withTenant EXCEPT !.users = Append(st.users,
                            [id |-> lastrowid(st.users), tenant_id |-> tenant_id,
                             name |-> admin_name, email |-> admin_email,
                             password |-> admin_password])]
    IN  IF tenant_name = <<>> \/ admin_name = <<>> \/ admin_email = <<>>
           \/ admin_password = <<>>
        THEN {}     \* answered before the store is opened
        ELSE {Outcome(no_response, close_uncommitted(st, st))}
             \cup (IF NameTaken(st.tenants, tenant_name) THEN {}
                   ELSE {Outcome(no_response, close_uncommitted(st, withTenant)),
                         Outcome(no_response, close_uncommitted(st, withUser))})

\* handle_login when one of its SELECTs raises
login_failure(st, r) ==
    LET data == r.form
        tenant_name == strip(Field(data, "tenantName"))
        email == strip(Field(data, "email"))
        password == Field(data, "password")
    IN  IF tenant_name = <<>> \/ email = <<>> \/ password = <<>>
        THEN {}
        ELSE {Outcome(no_response, st)}

\* handle_new_patient when the INSERT or the commit raises
new_patient_failure(st, r) ==
    LET session == get_session(r.cookie, st.SESSIONS)
        data == r.form
        name == strip(Field(data, "name"))
        withPatient ==
            [st EXCEPT !.patients = Append(st.patients,
                            PatientRow(lastrowid(st.patients), session[1], data))]
    IN  IF session = None \/ name = <<>>
        THEN {}
        ELSE {Outcome(no_response, close_uncommitted(st, st)),
              Outcome(no_response, close_uncommitted(st, withPatient))}

\* render_dashboard when the SELECT raises
dashboard_failure(st, r) ==
    IF get_session(r.cookie, st.SESSIONS) = None THEN {}
    ELSE {Outcome(no_response, st)}

\* The outcomes of request r when a store operation it performs raises; none
\* for a request that reaches no store operation.
HandleStoreFailure(st, r) ==
    IF r.method = "POST" /\ r.path = "/register-tenant"
    THEN register_tenant_failure(st, r)
    ELSE IF r.method = "POST" /\ r.path = "/login"
    THEN login_failure(st, r)
    ELSE IF r.method = "POST" /\ r.path = "/patients/new"
    THEN new_patient_failure(st, r)
    ELSE IF r.method = "GET" /\ r.path = "/dashboard"
    THEN dashboard_failure(st, r)
    ELSE {}

\* The request handler of the server: handle_one_request calls do_<METHOD>
\* and answers 501 when the class has no such method.  The class defines
\* do_GET and do_POST (do_HEAD, inherited from SimpleHTTPRequestHandler, is
\* not drawn).
Handle(st, r) ==
    IF r.method = "GET" THEN do_GET(st, r)
    ELSE IF r.method = "POST" THEN do_POST(st, r)
    ELSE {Outcome(send_error(501), st)}

\* ---------------------------------------------------------------- requests drawn
RegisterForms ==
    [tenantName : TenantNameInputs, adminName : AdminNameInputs,
     adminEmail : AdminEmailInputs, adminPassword : AdminPasswordInputs]

LoginForms ==
    [tenantName : LoginTenantInputs, email : LoginEmailInputs,
     password : LoginPasswordInputs]

\* a name with every (date_of_birth, notes) pair and crafted tenant_id, and
\* the blank names, which are rejected before the other fields are used
PatientForms ==
    {[name |-> n, date_of_birth |-> dn[1], notes |-> dn[2], tenant_id |-> t] :
        n \in PatientNameInputs, dn \in DobNotesInputs, t \in CraftedTenantIds}
    \cup {[name |-> n, date_of_birth |-> <<"d">>, notes |-> <<"x">>,
            tenant_id |-> 0] : n \in BlankNameInputs}

\* handle_register_tenant and handle_login never read the Cookie header, so
\* their requests are drawn without one.
RegisterRequests ==
    {Request("POST", "/register-tenant", NoCookie, f) : f \in RegisterForms}

LoginRequests == {Request("POST", "/login", NoCookie, f) : f \in LoginForms}

NewPatientRequests ==
    {Request("POST", "/patients/new", c, f) : c \in Cookies, f \in PatientForms}

GetRequests(path) == {Request("GET", path, c, NoForm) : c \in Cookies}

\* POSTs to paths do_POST has no branch for
UnroutedPosts ==
    {Request("POST", p, c, NoForm) :
        p \in {"/dashboard", "/logout", "/unknown"}, c \in Cookies}

\* serve_static runs before the Cookie header is read
StaticRequests == {StaticRequest(NoCookie, t) : t \in StaticTails}

\* the requests whose handlers perform store operations
StoreRequests ==
    RegisterRequests \cup LoginRequests \cup NewPatientRequests
        \cup GetRequests("/dashboard")

\* requests with a method other than GET and POST
OtherMethodRequests ==
    {Request(m, "/dashboard", c, NoForm) : m \in OtherMethods, c \in Cookies}

ProtectedRequests ==
    GetRequests("/dashboard") \cup GetRequests("/patients/new")
        \cup NewPatientRequests

\* ---------------------------------------------------------------- behaviour
Init ==
    /\ tenants = <<>>
    /\ users = <<>>
    /\ patients = <<>>
    /\ SESSIONS = <<>>
    /\ issued = {}
    /\ created = <<>>
    /\ connections = [c \in Connections |-> [phase |-> "closed"]]

\* the server handles request r: the state becomes that of one of r's outcomes
Serve(r) ==
    \E out \in Handle(State, r) :
        /\ tenants' = out.st.tenants
        /\ users' = out.st.users
        /\ patients' = out.st.patients
        /\ SESSIONS' = out.st.SESSIONS
        /\ issued' = out.st.issued
        /\ created' =
            IF r.method = "POST" /\ r.path = "/patients/new"
               /\ out.resp = redirect("/dashboard")
            THEN Append(created,
                    [tenant_id |-> get_session(r.cookie, SESSIONS)[1].tenant_id,
                     name |-> strip(Field(r.form, "name")),
                     date_of_birth |-> Field(r.form, "date_of_birth"),
                     notes |-> Field(r.form, "notes")])
            ELSE created
        /\ UNCHANGED connections

\* the server handles request r and a store operation raises
ServeFailing(r) ==
    \E out \in HandleStoreFailure(State, r) :
        /\ tenants' = out.st.tenants
        /\ users' = out.st.users
        /\ patients' = out.st.patients
        /\ SESSIONS' = out.st.SESSIONS
        /\ issued' = out.st.issued
        /\ created' = created
        /\ UNCHANGED connections

GetIndex ==
    \E r \in GetRequests("/") :
        /\ Serve(r)

GetRegisterTenant ==
    \E r \in GetRequests("/register-tenant") :
        /\ Serve(r)

GetLogin ==
    \E r \in GetRequests("/login") :
        /\ Serve(r)

GetDashboard ==
    \E r \in GetRequests("/dashboard") :
        /\ Serve(r)

GetNewPatient ==
    \E r \in GetRequests("/patients/new") :
        /\ Serve(r)

GetLogout ==
    \E r \in GetRequests("/logout") :
        /\ Serve(r)

GetUnknown ==
    \E r \in GetRequests("/unknown") :
        /\ Serve(r)

GetPublic ==
    \E r \in StaticRequests :
        /\ Serve(r)

PostRegisterTenant ==
    \E r \in RegisterRequests :
        /\ Serve(r)

PostLogin ==
    \E r \in LoginRequests :
        /\ Serve(r)

PostNewPatient ==
    \E r \in NewPatientRequests :
        /\ Serve(r)

PostUnknown ==
    \E r \in UnroutedPosts :
        /\ Serve(r)

OtherMethod ==
    \E r \in OtherMethodRequests :
        /\ Serve(r)

StoreFailure ==
    \E r \in StoreRequests :
        /\ ServeFailing(r)

Next ==
    \/ GetIndex
    \/ GetRegisterTenant
    \/ GetLogin
    \/ GetDashboard
    \/ GetNewPatient
    \/ GetLogout
    \/ GetUnknown
    \/ GetPublic
    \/ PostRegisterTenant
    \/ PostLogin
    \/ PostNewPatient
    \/ PostUnknown
    \/ OtherMethod
    \/ StoreFailure

Spec == Init /\ [][Next]_vars

\* ---------------------------------------------------------------- the server loop
\* socketserver.TCPServer.serve_forever with requests of several client
\* connections in flight, and the handlers that use the session registry in
\* the steps in which they read and write it.  A connection is closed (no
\* request), pending (its request is sent and waits to be accepted), handling
\* (the handler runs, at pc), done (the response is written) or failed (the
\* handler raised).
Closed == [phase |-> "closed"]
Pending(r) == [phase |-> "pending", request |-> r]
Handling(r, start, pc, locals) ==
    [phase |-> "handling", request |-> r, start |-> start, pc |-> pc,
     locals |-> locals]
Done(r, start, response) ==
    [phase |-> "done", request |-> r, start |-> start, resp |-> response]
Failed(r, start, error) ==
    [phase |-> "failed", request |-> r, start |-> start, error |-> error]

NoLocals == <<>>

\* the requests clients send: a registration, a login of the registered
\* admin, and logouts with each session id
ServerRegisterForm ==
    [tenantName |-> <<"a">>, adminName |-> <<" ", "n">>,
     adminEmail |-> <<"e", " ">>, adminPassword |-> <<" ", "p">>]

ServerLoginForm ==
    [tenantName |-> <<" ", "a">>, email |-> <<" ", "e">>,
     password |-> <<" ", "p">>]

ServerRequests ==
    {Request("POST", "/register-tenant", NoCookie, ServerRegisterForm),
     Request("POST", "/login", NoCookie, ServerLoginForm)}
        \cup {Request("GET", "/logout", SessionCookie(t), NoForm) : t \in Tokens}

\* the request may call set_session
CreatesSession(r) == r.method = "POST"

\* the requests in flight that may still draw a uuid4
Creating ==
    {c \in Connections :
        /\ connections[c].phase \in {"pending", "handling"}
        /\ CreatesSession(connections[c].request)}

storeVars == <<tenants, users, patients, SESSIONS, issued, created>>

\* a client connects and sends a request; a request that may create a
\* session only while the model has a uuid4 value left for it
Send(c) ==
    /\ connections[c].phase = "closed"
    /\ \E r \in ServerRequests :
        /\ CreatesSession(r) =>
                Cardinality(issued) + Cardinality(Creating) < MaxTokens
        /\ connections' = [connections EXCEPT ![c] = Pending(r)]
    /\ UNCHANGED storeVars

\* (mutant) socketserver.ThreadingMixIn: each request handled in its own thread
CanAccept_Threading == TRUE

\* TCPServer handles a request to its end (process_request, finish_request,
\* shutdown_request) before serve_forever accepts the next connection
CanAccept ==
    \A d \in Connections : connections[d].phase \notin {"handling", "done"}

\* the first step of the handler the request is routed to
FirstPc(r) ==
    IF r.path = "/register-tenant" THEN "commit"
    ELSE IF r.path = "/login" THEN "lookup"
    ELSE "get_session"

\* get_request: the server accepts the connection and calls the handler
Accept(c) ==
    /\ connections[c].phase = "pending"
    /\ CanAccept
    /\ connections' = [connections EXCEPT ![c] =
            Handling(connections[c].request, State,
                     FirstPc(connections[c].request), NoLocals)]
    /\ UNCHANGED storeVars

\* handle_register_tenant up to conn.close(): validation and the transaction
RegisterCommit(c) ==
    /\ connections[c].phase = "handling"
    /\ connections[c].pc = "commit"
    /\ LET r == connections[c].request
           start == connections[c].start
           tenant_name == strip(Field(r.form, "tenantName"))
           admin_name == strip(Field(r.form, "adminName"))
           admin_email == strip(Field(r.form, "adminEmail"))
           admin_password == Field(r.form, "adminPassword")
           tenant_id == lastrowid(tenants)
           user_id == lastrowid(users)
       IN  IF tenant_name = <<>> \/ admin_name = <<>> \/ admin_email = <<>>
              \/ admin_password = <<>>
           THEN /\ connections' = [connections EXCEPT ![c] =
                        Done(r, start, respond("register_tenant.html", None,
                                               "All fields are required."))]
                /\ UNCHANGED <<tenants, users>>
           ELSE IF NameTaken(tenants, tenant_name)
           THEN /\ connections' = [connections EXCEPT ![c] =
                        Done(r, start, respond("register_tenant.html", None,
                                    "Organisation name already exists."))]
                /\ UNCHANGED <<tenants, users>>
           ELSE /\ tenants' = Append(tenants,
                        [id |-> tenant_id, name |-> tenant_name])
                /\ users' = Append(users,
                        [id |-> user_id, tenant_id |-> tenant_id,
                         name |-> admin_name, email |-> admin_email,
                         password |-> admin_password])
                /\ connections' = [connections EXCEPT ![c] =
                        Handling(r, start, "set_session",
                            [user_id |-> user_id, user_name |-> admin_name,
                             tenant_id |-> tenant_id,
                             tenant_name |-> tenant_name])]
    /\ UNCHANGED <<patients, SESSIONS, issued, created>>

\* handle_login up to its test of the password
LoginLookup(c) ==
    /\ connections[c].phase = "handling"
    /\ connections[c].pc = "lookup"
    /\ LET r == connections[c].request
           start == connections[c].start
           tenant_name == strip(Field(r.form, "tenantName"))
           email == strip(Field(r.form, "email"))
           password == Field(r.form, "password")
           tenant_row == TenantByName(tenants, tenant_name)
           user_row == UserByTenantEmail(users, tenant_row[1].id, email)
       IN  connections' = [connections EXCEPT ![c] =
                IF tenant_name = <<>> \/ email = <<>> \/ password = <<>>
                THEN Done(r, start, respond("login.html", None,
                                            "All fields are required."))
                ELSE IF tenant_row = None
                THEN Done(r, start, respond("login.html", None,
                                            "Organisation not found."))
                ELSE IF CredentialsRejected(user_row, password)
                THEN Done(r, start, respond("login.html", None,
                                            LoginError(user_row)))
                ELSE Handling(r, start, "set_session",
                        [user_id |-> user_row[1].id,
                         user_name |-> user_row[1].name,
                         tenant_id |-> tenant_row[1].id,
                         tenant_name |-> tenant_name])]
    /\ UNCHANGED storeVars

\* set_session and the end of its caller
SetSession(c) ==
    /\ connections[c].phase = "handling"
    /\ connections[c].pc = "set_session"
    /\ LET l == connections[c].locals
       IN  \E out \in set_session(State, l.user_id, l.user_name,
                                  l.tenant_id, l.tenant_name) :
            /\ SESSIONS' = out.st.SESSIONS
            /\ issued' = out.st.issued
            /\ connections' = [connections EXCEPT ![c] =
                    Done(connections[c].request, connections[c].start, out.resp)]
    /\ UNCHANGED <<tenants, users, patients, created>>

\* handle_logout: clear_session() and session = self.get_session()
LogoutGetSession(c) ==
    /\ connections[c].phase = "handling"
    /\ connections[c].pc = "get_session"
    /\ LET r == connections[c].request
           session == get_session(r.cookie, SESSIONS)
       IN  connections' = [connections EXCEPT ![c] =
                IF session = None
                THEN Done(r, connections[c].start, clear_session_response("/"))
                ELSE Handling(r, connections[c].start, "items",
                              [session |-> session[1]])]
    /\ UNCHANGED storeVars

\* handle_logout: list(SESSIONS.items())
LogoutItems(c) ==
    /\ connections[c].phase = "handling"
    /\ connections[c].pc = "items"
    /\ connections' = [connections EXCEPT ![c] =
            Handling(connections[c].request, connections[c].start, "delete",
                     [session |-> connections[c].locals.session,
                      items |-> SESSIONS])]
    /\ UNCHANGED storeVars

\* the place in items of the first entry of the user, 0 when there is none
FirstOfUser(items, user_id) ==
    IF \E i \in 1..Len(items) : items[i].data.id = user_id
    THEN CHOOSE i \in 1..Len(items) :
            /\ items[i].data.id = user_id
            /\ \A j \in 1..(i - 1) : items[j].data.id # user_id
    ELSE 0

\* del S[sid]
DeleteKey(S, sid) ==
    SelectFrom(S, [i \in 1..Len(S) |-> S[i].sid # sid], 1)

\* handle_logout: the loop over the items, `del SESSIONS[sid]` (a KeyError
\* when the key is gone) and `break`, then the end of the response
LogoutDelete(c) ==
    /\ connections[c].phase = "handling"
    /\ connections[c].pc = "delete"
    /\ LET r == connections[c].request
           start == connections[c].start
           l == connections[c].locals
           i == FirstOfUser(l.items, l.session.id)
           sid == l.items[i].sid
       IN  IF i = 0
           THEN /\ connections' = [connections EXCEPT ![c] =
                        Done(r, start, clear_session_response("/"))]
                /\ UNCHANGED SESSIONS
           ELSE IF sid \in {SESSIONS[j].sid : j \in 1..Len(SESSIONS)}
           THEN /\ SESSIONS' = DeleteKey(SESSIONS, sid)
                /\ connections' = [connections EXCEPT ![c] =
                        Done(r, start, clear_session_response("/"))]
           ELSE /\ connections' = [connections EXCEPT ![c] =
                        Failed(r, start, "KeyError")]
                /\ UNCHANGED SESSIONS
    /\ UNCHANGED <<tenants, users, patients, issued, created>>

\* shutdown_request: the connection is closed
Close(c) ==
    /\ connections[c].phase = "done"
    /\ connections' = [connections EXCEPT ![c] = Closed]
    /\ UNCHANGED storeVars

ServerNext ==
    \E c \in Connections :
        \/ Send(c)
        \/ Accept(c)
        \/ RegisterCommit(c)
        \/ LoginLookup(c)
        \/ SetSession(c)
        \/ LogoutGetSession(c)
        \/ LogoutItems(c)
        \/ LogoutDelete(c)
        \/ Close(c)

ServerSpec == Init /\ [][ServerNext]_vars

\* ---------------------------------------------------------------- properties
\* The properties quantify over the requests the server may receive in the
\* current state and over the outcomes Handle gives them.  Form fields are
\* named by the value the handler reads: trimmed for tenant name, admin name,
\* email and patient name, as sent for password, date of birth and notes.

Outcomes(r) == Handle(State, r)

\* the requests drawn with a Cookie header
CookieRequests ==
    UNION {GetRequests(p) : p \in {"/", "/register-tenant", "/login",
                "/dashboard", "/patients/new", "/logout", "/unknown"}}
        \cup NewPatientRequests \cup UnroutedPosts

\* the session ids the registry holds
LiveIds(S) == {S[i].sid : i \in 1..Len(S)}

\* the row of table T with the given id
RowById(T, id) == T[CHOOSE i \in 1..Len(T) : T[i].id = id]

\* the tenant ids of the rows of table T
TenantIdsOf(T) == {T[i].tenant_id : i \in 1..Len(T)}

StateAfter ==
    [tenants |-> tenants', users |-> users', patients |-> patients',
     SESSIONS |-> SESSIONS', issued |-> issued']

\* C2. Logout completeness: whenever GET /logout is handled for a request
\* whose session token t is valid (the user may hold other live tokens), t is
\* absent from the registry afterwards and GET /dashboard, GET /patients/new
\* and POST /patients/new presenting t are redirected to /login.
C2_LogoutCompleteness ==
    [][\A r \in GetRequests("/logout") :
        (get_session(r.cookie, SESSIONS) # None /\ Serve(r)) =>
            /\ get_session(r.cookie, SESSIONS') = None
            /\ \A p \in ProtectedRequests :
                    p.cookie = r.cookie =>
                        \A later \in Handle(StateAfter, p) :
                            later.resp = redirect("/login")]_vars

\* C3. Whenever GET /logout is handled with a valid session of user u, no
\* token whose stored user id is u is left in the registry.
C3_LogoutRemovesAllUserSessions ==
    [][\A r \in GetRequests("/logout") :
        (get_session(r.cookie, SESSIONS) # None /\ Serve(r)) =>
            \A i \in 1..Len(SESSIONS') :
                SESSIONS'[i].data.id # get_session(r.cookie, SESSIONS)[1].id]_vars

\* the request carries no Cookie header, or no session_id the registry holds
Unauthenticated(r) ==
    \/ r.cookie.kind # "session"
    \/ r.cookie.session_id \notin LiveIds(SESSIONS)

\* C4. Session-gated access: in every reachable state, GET /dashboard,
\* GET /patients/new and POST /patients/new without a cookie, or with a
\* session_id the registry does not hold, are answered, and answered only,
\* with a 302 redirect to /login that carries no patient data; the store and
\* the registry stay as they were.
C4_SessionGatedAccess ==
    \A r \in ProtectedRequests :
        Unauthenticated(r) =>
            /\ Outcomes(r) # {}
            /\ \A out \in Outcomes(r) :
                /\ out.resp.status = 302
                /\ out.resp.location = "/login"
                /\ out.resp.patients = <<>>
                /\ out.resp.rows = <<>>
                /\ out.resp.set_cookie = None
                /\ out.st = State

\* Patients are stored and a session is live, and a token that was issued
\* and then logged out is presented to the dashboard: the answer is the
\* redirect.
C4_Witness ==
    /\ patients # <<>>
    /\ SESSIONS # <<>>
    /\ \E t \in issued \ LiveIds(SESSIONS) :
        Outcomes(Request("GET", "/dashboard", SessionCookie(t), NoForm))
            = {Outcome(redirect("/login"), State)}

\* the fields of a registration as handle_register_tenant reads them
RegTenantName(r) == strip(Field(r.form, "tenantName"))
RegAdminName(r) == strip(Field(r.form, "adminName"))
RegAdminEmail(r) == strip(Field(r.form, "adminEmail"))
RegAdminPassword(r) == Field(r.form, "adminPassword")

\* the tenants table holds the name
TenantExists(name) == \E i \in 1..Len(tenants) : tenants[i].name = name

RegAdminFieldsGiven(r) ==
    RegAdminName(r) # <<>> /\ RegAdminEmail(r) # <<>> /\ RegAdminPassword(r) # <<>>

DuplicateNameForm ==
    respond("register_tenant.html", None, "Organisation name already exists.")

\* C5 as claimed. Registration rejection: POST /register-tenant with a tenant
\* name the store already holds, any admin fields, is answered with the
\* re-rendered form carrying the duplicate-name error, and tenants, users and
\* the session registry are unchanged.
C5_DuplicateNameAnyAdminFields ==
    \A r \in RegisterRequests :
        TenantExists(RegTenantName(r)) =>
            Outcomes(r) = {Outcome(DuplicateNameForm, State)}

\* C5 as amended. POST /register-tenant with a tenant name the store already
\* holds leaves tenants, users and the session registry unchanged, whatever
\* the admin fields, and is answered 200 with the re-rendered form and an
\* error: the duplicate-name error when admin name and email are non-empty
\* after trimming and the password is non-empty, the validation error "All
\* fields are required." when one of them is empty.
C5_RegistrationRejection ==
    \A r \in RegisterRequests :
        TenantExists(RegTenantName(r)) =>
            Outcomes(r) =
                {Outcome(IF RegAdminFieldsGiven(r) THEN DuplicateNameForm
                         ELSE respond("register_tenant.html", None,
                                      "All fields are required."),
                         State)}

\* A tenant is registered and its session is live; a second registration
\* whose tenant name is the stored one once trimmed (it is sent with
\* surrounding whitespace), all admin fields given, is answered with the
\* duplicate-name form, and one with an empty admin name with the validation
\* form.
C5_Witness ==
    /\ Len(tenants) = 1
    /\ Len(SESSIONS) = 1
    /\ \E r \in RegisterRequests :
        /\ TenantExists(RegTenantName(r))
        /\ RegAdminFieldsGiven(r)
        /\ Field(r.form, "tenantName") # tenants[1].name
        /\ Outcomes(r) = {Outcome(DuplicateNameForm, State)}
    /\ \E r \in RegisterRequests :
        /\ TenantExists(RegTenantName(r))
        /\ RegAdminName(r) = <<>>
        /\ \A out \in Outcomes(r) : out.resp.error = "All fields are required."

\* C6. Successful registration: POST /register-tenant whose four fields are
\* non-empty (names and email after trimming) and whose tenant name is not in
\* the store yields one more tenant, one more user owned by that tenant, one
\* more session under a token never issued before, with the snapshot (new
\* user's id, admin name, new tenant's id, tenant name), and the answer 302,
\* Location /dashboard, Set-Cookie session_id=<that token> with path "/".
C6_SuccessfulRegistration ==
    \A r \in RegisterRequests :
        (RegTenantName(r) # <<>> /\ RegAdminFieldsGiven(r)
            /\ ~TenantExists(RegTenantName(r))) =>
        \A out \in Outcomes(r) :
            LET T == out.st.tenants
                U == out.st.users
                S == out.st.SESSIONS
            IN  /\ Len(T) = Len(tenants) + 1
                /\ SubSeq(T, 1, Len(tenants)) = tenants
                /\ T[Len(T)].name = RegTenantName(r)
                /\ \A i \in 1..Len(tenants) : tenants[i].id # T[Len(T)].id
                /\ Len(U) = Len(users) + 1
                /\ SubSeq(U, 1, Len(users)) = users
                /\ \A i \in 1..Len(users) : users[i].id # U[Len(U)].id
                /\ U[Len(U)].tenant_id = T[Len(T)].id
                /\ U[Len(U)].name = RegAdminName(r)
                /\ U[Len(U)].email = RegAdminEmail(r)
                /\ U[Len(U)].password = RegAdminPassword(r)
                /\ Len(S) = Len(SESSIONS) + 1
                /\ SubSeq(S, 1, Len(SESSIONS)) = SESSIONS
                /\ S[Len(S)].sid \notin issued
                /\ S[Len(S)].data =
                        [id |-> U[Len(U)].id, user_name |-> RegAdminName(r),
                         tenant_id |-> T[Len(T)].id,
                         tenant_name |-> RegTenantName(r)]
                /\ out.st.patients = patients
                /\ out.resp.status = 302
                /\ out.resp.location = "/dashboard"
                /\ out.resp.set_cookie =
                        Some([name |-> "session_id", value |-> Some(S[Len(S)].sid),
                              path |-> "/", expires |-> ""])

\* One tenant has registered (its tenant, user and session exist) and a
\* registration under a new name, sent with surrounding whitespace, succeeds.
C6_Witness ==
    /\ Len(tenants) = 1 /\ Len(users) = 1 /\ Len(SESSIONS) = 1
    /\ SESSIONS[1].data.id = users[1].id
    /\ \E r \in RegisterRequests :
        /\ RegTenantName(r) # Field(r.form, "tenantName")
        /\ ~TenantExists(RegTenantName(r))
        /\ \E out \in Outcomes(r) : Len(out.st.tenants) = 2

\* the fields of a login as handle_login reads them
LoginTenantName(r) == strip(Field(r.form, "tenantName"))
LoginEmail(r) == strip(Field(r.form, "email"))
LoginPassword(r) == Field(r.form, "password")

\* user row j belongs to tenant row i and carries the email
UserOf(i, j, email) ==
    users[j].tenant_id = tenants[i].id /\ users[j].email = email

\* the tenant named exists, it has a user with the email, and the password
\* equals the stored one
LoginMatches(r, i, j) ==
    /\ tenants[i].name = LoginTenantName(r)
    /\ UserOf(i, j, LoginEmail(r))
    /\ users[j].password = LoginPassword(r)

\* C7. Login succeeds exactly when the named tenant exists, a user with that
\* tenant id and that email exists, and the supplied password equals the
\* stored one: then the only change is one new session, under a token never
\* issued before, whose snapshot holds that user's id and name and that
\* tenant's id and name, and the answer is 302 to /dashboard with the
\* session cookie; in every other case the registry is unchanged and no
\* cookie is set.
C7_LoginExactlyWhen ==
    \A r \in LoginRequests : \A out \in Outcomes(r) :
        IF \E i \in 1..Len(tenants), j \in 1..Len(users) : LoginMatches(r, i, j)
        THEN \E i \in 1..Len(tenants), j \in 1..Len(users) :
                /\ LoginMatches(r, i, j)
                /\ \E t \in Tokens \ issued :
                    /\ out.st.SESSIONS = Append(SESSIONS,
                            [sid |-> t,
                             data |-> [id |-> users[j].id,
                                       user_name |-> users[j].name,
                                       tenant_id |-> tenants[i].id,
                                       tenant_name |-> tenants[i].name]])
                    /\ out.resp.status = 302
                    /\ out.resp.location = "/dashboard"
                    /\ out.resp.set_cookie =
                            Some([name |-> "session_id", value |-> Some(t),
                                  path |-> "/", expires |-> ""])
                /\ out.st.tenants = tenants
                /\ out.st.users = users
                /\ out.st.patients = patients
        ELSE /\ out.st = State
             /\ out.resp.set_cookie = None
             /\ out.resp.status = 200

\* Two tenants whose users share an email are registered and the second
\* tenant's user has since logged in: the newest session is a second one of
\* that user, made from the rows of the tenant the login named.  A login
\* that names the second tenant with an email none of its users has, and the
\* stored password, is rejected.
C7_Witness ==
    /\ Len(tenants) = 2
    /\ users[1].email = users[2].email
    /\ Len(SESSIONS) = 3
    /\ SESSIONS[1].data.id = 1
    /\ SESSIONS[2].data.id = 2
    /\ SESSIONS[3].data =
            [id |-> users[2].id, user_name |-> users[2].name,
             tenant_id |-> tenants[2].id, tenant_name |-> tenants[2].name]
    /\ \E r \in LoginRequests : LoginMatches(r, 2, 2)
    /\ \E r \in LoginRequests :
        /\ tenants[2].name = LoginTenantName(r)
        /\ LoginEmail(r) # <<>>
        /\ LoginEmail(r) # users[2].email
        /\ users[2].password = LoginPassword(r)
        /\ Outcomes(r) # {}
        /\ \A out \in Outcomes(r) : out.st = State

\* the tenant the login names exists and has no user with the email
UnknownEmail(r) ==
    \E i \in 1..Len(tenants) :
        /\ tenants[i].name = LoginTenantName(r)
        /\ \A j \in 1..Len(users) : ~UserOf(i, j, LoginEmail(r))

\* the tenant the login names exists and has a user with the email, whose
\* stored password differs from the one supplied
WrongPassword(r) ==
    \E i \in 1..Len(tenants), j \in 1..Len(users) :
        /\ tenants[i].name = LoginTenantName(r)
        /\ UserOf(i, j, LoginEmail(r))
        /\ users[j].password # LoginPassword(r)

InvalidCredentialsForm == respond("login.html", None, "Invalid credentials.")

\* C8 as claimed. For an existing tenant, a login whose email matches no user
\* of the tenant and a login with a matching email and a wrong password have
\* the identical outcome: 200, "Invalid credentials.", no Set-Cookie, state
\* unchanged; only an absent tenant yields "Organisation not found.".
C8_IndistinguishableAnyFields ==
    \A r1 \in LoginRequests, r2 \in LoginRequests :
        (UnknownEmail(r1) /\ WrongPassword(r2)) =>
            /\ Outcomes(r1) = {Outcome(InvalidCredentialsForm, State)}
            /\ Outcomes(r2) = Outcomes(r1)

\* C8 as amended. For an existing tenant and a non-empty email (after
\* trimming) and password, a login whose email matches no user of the tenant
\* and one with a matching email and a wrong password have the identical
\* outcome: 200, "Invalid credentials.", no Set-Cookie, state unchanged.  A
\* login with an empty field is answered "All fields are required." whatever
\* the store holds, and "Organisation not found." is the answer exactly when
\* all fields are given and the tenant is absent.
C8_LoginIndistinguishable ==
    LET given(r) == LoginTenantName(r) # <<>> /\ LoginEmail(r) # <<>>
                        /\ LoginPassword(r) # <<>>
        unknown == {r \in LoginRequests : given(r) /\ UnknownEmail(r)}
        wrong == {r \in LoginRequests : given(r) /\ WrongPassword(r)}
        unknownOutcomes == {Outcomes(r) : r \in unknown}
        wrongOutcomes == {Outcomes(r) : r \in wrong}
        rejected == {Outcome(InvalidCredentialsForm, State)}
    IN  /\ \A o1 \in unknownOutcomes, o2 \in wrongOutcomes : o1 = o2
        /\ \A o \in unknownOutcomes \cup wrongOutcomes : o = rejected
        /\ InvalidCredentialsForm.set_cookie = None
        /\ InvalidCredentialsForm.status = 200
        /\ \A r \in LoginRequests : \A out \in Outcomes(r) :
                /\ ~given(r) =>
                    out = Outcome(respond("login.html", None,
                                          "All fields are required."), State)
                /\ out.resp.error = "Organisation not found."
                    <=> (given(r) /\ ~TenantExists(LoginTenantName(r)))

\* A tenant with a user is registered; one login names it with an email no
\* user of it has, another with its user's email and a wrong password, both
\* with all fields given, and both are answered with the same form.
C8_Witness ==
    /\ Len(tenants) = 1
    /\ \E r1 \in LoginRequests, r2 \in LoginRequests :
        /\ UnknownEmail(r1) /\ WrongPassword(r2)
        /\ LoginEmail(r1) # <<>> /\ LoginPassword(r2) # <<>>
        /\ LoginPassword(r1) = users[1].password
        /\ Outcomes(r1) = {Outcome(InvalidCredentialsForm, State)}
        /\ Outcomes(r2) = Outcomes(r1)

\* how often e occurs in the sequence q
RECURSIVE Count(_, _)
Count(q, e) ==
    IF q = <<>> THEN 0
    ELSE (IF Head(q) = e THEN 1 ELSE 0) + Count(Tail(q), e)

Range(q) == {q[i] : i \in 1..Len(q)}

\* the same entries, each as often
SameEntries(p, q) ==
    /\ Len(p) = Len(q)
    /\ \A e \in Range(p) \cup Range(q) : Count(p, e) = Count(q, e)

\* what the successful POST /patients/new requests made so far with sessions
\* of the tenant submitted, as a listing
RECURSIVE CreatedFor(_, _)
CreatedFor(history, tenant_id) ==
    IF history = <<>> THEN <<>>
    ELSE (IF Head(history).tenant_id = tenant_id
          THEN <<[name |-> Head(history).name,
                  date_of_birth |-> Head(history).date_of_birth,
                  notes |-> Head(history).notes]>>
          ELSE <<>>) \o CreatedFor(Tail(history), tenant_id)

\* C9. Dashboard exactness: in every reachable state GET /dashboard with a
\* valid session of tenant T is answered 200 with a listing that holds
\* exactly the patients created so far by successful POST /patients/new
\* requests made with sessions bound to T, one entry per creation.
C9_DashboardExactness ==
    \A r \in GetRequests("/dashboard") :
        LET session == get_session(r.cookie, SESSIONS)
        IN  session # None =>
            /\ Outcomes(r) # {}
            /\ \A out \in Outcomes(r) :
                /\ out.resp.status = 200
                /\ out.resp.view = "dashboard.html"
                /\ SameEntries(out.resp.patients,
                               CreatedFor(created, session[1].tenant_id))
                /\ out.st = State

\* Sessions of two tenants are live; one tenant has created two patients,
\* both listed on its dashboard, and the other tenant's dashboard is empty.
C9_Witness ==
    /\ Len(created) = 2
    /\ \E c1 \in Cookies, c2 \in Cookies :
        /\ get_session(c1, SESSIONS) # None
        /\ get_session(c2, SESSIONS) # None
        /\ \A out \in Outcomes(Request("GET", "/dashboard", c1, NoForm)) :
                Len(out.resp.patients) = 2
        /\ \A out \in Outcomes(Request("GET", "/dashboard", c2, NoForm)) :
                out.resp.patients = <<>>

\* C10. Patient round trip: in every reachable state, a POST /patients/new
\* made with a valid session, a name n that is non-empty after trimming, a
\* date of birth d and notes s adds one entry to that tenant's dashboard
\* listing, with name the trimmed n and date_of_birth and notes equal to d
\* and s as submitted; an empty d or s is stored as NULL and listed as the
\* empty string.
C10_PatientRoundTrip ==
    \A r \in NewPatientRequests :
        LET session == get_session(r.cookie, SESSIONS)
            n == strip(Field(r.form, "name"))
            d == Field(r.form, "date_of_birth")
            s == Field(r.form, "notes")
            dash == Request("GET", "/dashboard", r.cookie, NoForm)
        IN  (session # None /\ n # <<>>) =>
            \A out \in Outcomes(r) :
                LET row == out.st.patients[Len(out.st.patients)]
                IN  /\ Len(out.st.patients) = Len(patients) + 1
                    /\ row.date_of_birth.null <=> d = <<>>
                    /\ row.notes.null <=> s = <<>>
                    /\ Handle(out.st, dash) # {}
                    /\ \A before \in Outcomes(dash), after \in Handle(out.st, dash) :
                        SameEntries(after.resp.patients,
                            Append(before.resp.patients,
                                   [name |-> n, date_of_birth |-> d, notes |-> s]))

\* A patient with an empty date of birth and one with empty notes are
\* stored, both columns NULL once, and the owner's dashboard lists them with
\* the empty string in those places.
C10_Witness ==
    /\ Len(patients) = 2
    /\ patients[1].date_of_birth.null /\ ~patients[1].notes.null
    /\ patients[2].notes.null /\ ~patients[2].date_of_birth.null
    /\ \E c \in Cookies :
        /\ get_session(c, SESSIONS) # None
        /\ \E out \in Outcomes(Request("GET", "/dashboard", c, NoForm)) :
            /\ Len(out.resp.patients) = 2
            /\ out.resp.patients[1].date_of_birth = <<>>
            /\ out.resp.patients[2].notes = <<>>
            /\ out.resp.patients[1].name = <<"j">>

\* ---------------------------------------------------------------- C11..C19
\* every request drawn with or without a Cookie header
Requests ==
    CookieRequests \cup RegisterRequests \cup LoginRequests \cup StaticRequests
        \cup OtherMethodRequests

\* r is a GET /logout that presents a live session of the user
LogoutOfUser(r, user_id) ==
    /\ r.method = "GET"
    /\ r.path = "/logout"
    /\ get_session(r.cookie, SESSIONS) # None
    /\ get_session(r.cookie, SESSIONS)[1].id = user_id

\* C11. No silent expiry: whatever request the server handles, every entry
\* of the session registry is still there afterwards, under the same token
\* and with the same snapshot, unless the request is a GET /logout made with
\* a live session of the entry's user; in particular a session created by a
\* registration or a login removes and overwrites no other.
C11_NoSilentExpiry ==
    [][\A i \in 1..Len(SESSIONS) :
        \/ DictGet(SESSIONS', SESSIONS[i].sid) = Some(SESSIONS[i].data)
        \/ \A r \in Requests :
                Serve(r) => LogoutOfUser(r, SESSIONS[i].data.id)]_vars

\* The first user's token is still looked up with its snapshot after a
\* second tenant has registered, its user has logged out, a further session
\* has been created and a patient has been stored.
C11_Witness ==
    /\ Len(tenants) = 2
    /\ patients # <<>>
    /\ DictGet(SESSIONS, 1) =
            Some(SessionData(users[1].id, users[1].name,
                             tenants[1].id, tenants[1].name))
    /\ 2 \in issued \ LiveIds(SESSIONS)
    /\ 3 \in LiveIds(SESSIONS)

\* the fixed public directory
PUBLIC_DIR == AppDir \o <<"public">>

\* the file lies inside the directory
Inside(file, dir) ==
    Len(file) > Len(dir) /\ SubSeq(file, 1, Len(dir)) = dir

\* C12. Static file confinement: for every request path beginning with
\* /public/, paths with ".." segments included, a file that is served lies
\* inside the public directory, and a path that resolves outside it is
\* answered with 404 and not with a file.
C12_StaticFileConfinement ==
    \A r \in StaticRequests : \A out \in Outcomes(r) :
        LET resolved == file_path(r.segments)
        IN  /\ out.resp.status = 200 => Inside(out.resp.file, PUBLIC_DIR)
            /\ (resolved # None /\ ~Inside(resolved[1], PUBLIC_DIR)) =>
                    out.resp = send_error(404)

\* the generic server-error response
ServerError == send_error(500)

\* C13. Store-failure containment: whenever a store operation fails
\* unexpectedly during a registration, a login, a patient creation or a
\* dashboard request, the request is answered with the generic server-error
\* response, the session registry is as it was before the request, nothing
\* of the request is committed to the store, and the server handles the
\* requests that follow.
C13_StoreFailureContainment ==
    \A r \in StoreRequests : \A out \in HandleStoreFailure(State, r) :
        /\ out.resp = ServerError
        /\ out.st.SESSIONS = SESSIONS
        /\ out.st = State
        /\ \A later \in Requests : Handle(State, later) # {} =>
                Handle(out.st, later) # {}

\* the string is empty once trimmed: it holds nothing but whitespace
Blank(s) == \A i \in 1..Len(s) : s[i] \in Whitespace

\* a registration with one of its four fields empty (tenant name, admin name
\* and email after trimming, the password as sent)
RegisterFieldMissing(r) ==
    \/ Blank(Field(r.form, "tenantName"))
    \/ Blank(Field(r.form, "adminName"))
    \/ Blank(Field(r.form, "adminEmail"))
    \/ Field(r.form, "adminPassword") = <<>>

\* a login with one of its three fields empty
LoginFieldMissing(r) ==
    \/ Blank(Field(r.form, "tenantName"))
    \/ Blank(Field(r.form, "email"))
    \/ Field(r.form, "password") = <<>>

\* a POST /patients/new with a live session and a name empty once trimmed
PatientNameMissing(r) ==
    get_session(r.cookie, SESSIONS) # None /\ Blank(Field(r.form, "name"))

\* r is answered, and only so, with HTTP 200 and the re-rendered form with an
\* error message, and the state is left as it is
RejectedWithForm(r, view) ==
    /\ Outcomes(r) # {}
    /\ \A out \in Outcomes(r) :
        /\ out.resp.status = 200
        /\ out.resp.view = view
        /\ out.resp.error # ""
        /\ out.resp.set_cookie = None
        /\ out.st = State

\* C14. Validation failure changes nothing: a POST /register-tenant with one
\* of the four fields empty (tenant name, admin name, email after trimming;
\* password as sent), a POST /login with one of its three fields empty, and
\* an authenticated POST /patients/new with a name empty after trimming are
\* answered with HTTP 200 and the re-rendered form carrying an error message,
\* and tenants, users, patients and the session registry are unchanged.
C14_ValidationFailureChangesNothing ==
    /\ \A r \in RegisterRequests :
            RegisterFieldMissing(r) => RejectedWithForm(r, "register_tenant.html")
    /\ \A r \in LoginRequests :
            LoginFieldMissing(r) => RejectedWithForm(r, "login.html")
    /\ \A r \in NewPatientRequests :
            PatientNameMissing(r) => RejectedWithForm(r, "new_patient.html")

\* A tenant is registered, its session is live and it has a patient.  A
\* registration under a new name with only the password empty, one with a
\* whitespace-only tenant name, a login to the tenant with only the password
\* empty and a patient with a whitespace-only name sent with the live session
\* are each rejected with the form.
C14_Witness ==
    /\ Len(tenants) = 1
    /\ patients # <<>>
    /\ \E r \in RegisterRequests :
        /\ ~TenantExists(RegTenantName(r)) /\ RegTenantName(r) # <<>>
        /\ RegAdminName(r) # <<>> /\ RegAdminEmail(r) # <<>>
        /\ RegAdminPassword(r) = <<>>
        /\ RejectedWithForm(r, "register_tenant.html")
    /\ \E r \in RegisterRequests :
        /\ Field(r.form, "tenantName") # <<>>
        /\ RegTenantName(r) = <<>>
        /\ RegAdminFieldsGiven(r)
        /\ RejectedWithForm(r, "register_tenant.html")
    /\ \E r \in LoginRequests :
        /\ TenantExists(LoginTenantName(r))
        /\ LoginEmail(r) = users[1].email
        /\ LoginPassword(r) = <<>>
        /\ RejectedWithForm(r, "login.html")
    /\ \E r \in NewPatientRequests :
        /\ PatientNameMissing(r)
        /\ Field(r.form, "name") # <<>>
        /\ RejectedWithForm(r, "new_patient.html")

\* the connections whose request the server is handling
BeingHandled ==
    {c \in Connections : connections[c].phase \in {"handling", "done", "failed"}}

\* C15. Session-registry synchronization: with requests of several
\* connections in flight, at most one of them is being handled, and so is
\* reading or writing the session registry, at a time; no handler ends with
\* an error; and each request, overlapping logouts of one user and a logout
\* overlapping a login included, ends with the response and the state that
\* handling it alone gives from the state in which it was accepted, so that
\* the outcome is that of running the requests one after the other.
C15_RegistrySynchronization ==
    /\ Cardinality(BeingHandled) <= 1
    /\ \A c \in Connections :
        /\ connections[c].phase # "failed"
        /\ connections[c].phase = "done" =>
                Outcome(connections[c].resp, State)
                    \in Handle(connections[c].start, connections[c].request)

\* The user holds two sessions; a logout made with one of them has read the
\* registry's items and is about to delete, while a logout made with the
\* user's other session waits on another connection.
C15_Witness ==
    \E c \in Connections, d \in Connections :
        /\ c # d
        /\ Len(SESSIONS) = 2
        /\ connections[c].phase = "handling"
        /\ connections[c].pc = "delete"
        /\ connections[d].phase = "pending"
        /\ connections[d].request.path = "/logout"
        /\ connections[d].request.cookie # connections[c].request.cookie
        /\ get_session(connections[d].request.cookie, SESSIONS) # None

\* no two rows of the tenants table have the same name
TenantNamesUnique ==
    \A i \in 1..Len(tenants), j \in 1..Len(tenants) :
        tenants[i].name = tenants[j].name => i = j

\* a step keeps every row of the tenants table, id and name, and may add rows
TenantsOnlyGrow ==
    /\ Len(tenants') >= Len(tenants)
    /\ SubSeq(tenants', 1, Len(tenants)) = tenants

\* C16. Tenant store invariant: in every reachable state no two tenants have
\* the same name, and every step leaves each existing tenant in the table
\* with its id and name: the set of tenants only grows.
C16_TenantStoreInvariant ==
    []TenantNamesUnique /\ [][TenantsOnlyGrow]_vars

\* Two tenants are registered and one has a patient; a registration with all
\* fields given under either of their names, sent with surrounding
\* whitespace, leaves the table as it is.
C16_Witness ==
    /\ Len(tenants) = 2
    /\ tenants[1].name # tenants[2].name
    /\ tenants[1].id # tenants[2].id
    /\ patients # <<>>
    /\ \E r \in RegisterRequests :
        /\ TenantExists(RegTenantName(r))
        /\ Field(r.form, "tenantName") # RegTenantName(r)
        /\ RegAdminFieldsGiven(r)
        /\ Outcomes(r) # {}
        /\ \A out \in Outcomes(r) : out.st.tenants = tenants

\* the requests outside the route table: a GET to an unknown path, POSTs to
\* paths do_POST does not route, and other methods
UnmatchedRequests ==
    GetRequests("/unknown") \cup UnroutedPosts \cup OtherMethodRequests

\* C17. Unmatched routes: every (method, path) pair outside the route table,
\* a POST to a GET-only path and a GET to an unknown path included, is
\* answered with the not-found error, with or without a valid session, and
\* the store and the session registry are unchanged.
C17_UnmatchedRoutes ==
    \A r \in UnmatchedRequests :
        Outcomes(r) = {Outcome(send_error(404), State)}

\* the user rows owned by the tenant
UsersOfTenant(tenant_id) ==
    {j \in 1..Len(users) : users[j].tenant_id = tenant_id}

\* C18. Registration is all-or-nothing in the store: in every reachable
\* state, rejected registrations and registrations whose store operations
\* failed included, every tenant has exactly one user, every user's tenant id
\* is that of an existing tenant, and no tenant has two users with the same
\* email.
C18_RegistrationAllOrNothing ==
    /\ \A i \in 1..Len(tenants) :
            Cardinality(UsersOfTenant(tenants[i].id)) = 1
    /\ \A j \in 1..Len(users) :
            \E i \in 1..Len(tenants) : tenants[i].id = users[j].tenant_id
    /\ \A j \in 1..Len(users), k \in 1..Len(users) :
            (users[j].tenant_id = users[k].tenant_id
                /\ users[j].email = users[k].email) => j = k

\* One tenant with its admin is registered.  A registration under a new name
\* may fail at the first INSERT, at the second or at the commit, and each
\* time nothing of it is in the store; one under the existing name is
\* rejected.
C18_Witness ==
    /\ Len(tenants) = 1
    /\ Len(users) = 1
    /\ \E r \in RegisterRequests :
        /\ ~TenantExists(RegTenantName(r))
        /\ Cardinality({o.st : o \in HandleStoreFailure(State, r)}) = 1
        /\ \A out \in HandleStoreFailure(State, r) : out.st = State
        /\ \E out \in Outcomes(r) : Len(out.st.users) = 2
    /\ \E r \in RegisterRequests :
        /\ TenantExists(RegTenantName(r))
        /\ RegAdminFieldsGiven(r)
        /\ \A out \in Outcomes(r) : out.st = State

\* C19. Session consistency: in every reachable state every entry of the
\* session registry holds the id of an existing user, the tenant id of that
\* user's tenant, and that tenant's stored name.
C19_SessionConsistency ==
    \A s \in 1..Len(SESSIONS) :
        LET data == SESSIONS[s].data
        IN  /\ \E j \in 1..Len(users) :
                /\ users[j].id = data.id
                /\ users[j].tenant_id = data.tenant_id
            /\ \E i \in 1..Len(tenants) :
                /\ tenants[i].id = data.tenant_id
                /\ tenants[i].name = data.tenant_name

\* Two tenants are registered; the registry holds the two sessions their
\* registrations created and a third one, created by a login of the second
\* tenant's user with the tenant name sent with surrounding whitespace.
C19_Witness ==
    /\ Len(tenants) = 2
    /\ Len(SESSIONS) = 3
    /\ SESSIONS[1].data.id = users[1].id
    /\ SESSIONS[2].data.id = users[2].id
    /\ SESSIONS[3].data.id = users[2].id
    /\ SESSIONS[3].data.tenant_name = tenants[2].name
    /\ \E r \in LoginRequests :
        /\ LoginTenantName(r) = tenants[2].name
        /\ Field(r.form, "tenantName") # tenants[2].name

====
